---- MODULE Spec2Model ----
(***************************************************************************)
(* A model of cancer_sims: the transition matrix (src/src/pmatrix.rs), the *)
(* lineage arena (src/src/tree.rs), the generation-synchronised Yule /     *)
(* migration driver (src/src/simulations.rs) and main's rendering step     *)
(* (src/src/main.rs, src/src/visualizations.rs).                           *)
(*                                                                         *)
(* Indices are 0-based as in the source: a Vec or an ndarray axis of       *)
(* length k is a function with domain 0..k-1.  Lists whose indices are     *)
(* never used as references (children lists, the driver's leaf lists, the  *)
(* log of random draws) are sequences.                                     *)
(***************************************************************************)
EXTENDS Integers, Sequences, FiniteSets, TLC

\* ------------------------------------------------------------------ bounds
\* Largest entry of a matrix handed to PMatrix::from_vector.
MaxEntry == 5
\* Largest column weight handed to PMatrix::diag_mul.
MaxWeight == 2
\* Largest iteration count handed to PMatrix::rescale.
MaxIters == 2

\* ------------------------------------------------------- program constants
\* The dimension the repository's own PMatrix test uses (test_diag_mul).
TestDim == 2
\* The iteration count rescale_from_frequencies passes to rescale.
RescaleIters == 3

\* ------------------------------------------------------------- f64 values
\* The f64 values the matrices hold, by class.  "fin" is a non-negative
\* integer-valued float, exact under + and * while small; "pos" is a finite
\* positive float whose value the model does not track; "inf" is +infinity
\* and "nan" is NaN.  The matrices of the program are non-negative, so no
\* negative class is needed.
Fin(k) == [cls |-> "fin", v |-> k]
POS == [cls |-> "pos", v |-> 0]
INF == [cls |-> "inf", v |-> 0]
NAN == [cls |-> "nan", v |-> 0]

IsNaN(a) == a.cls = "nan"
IsInf(a) == a.cls = "inf"
IsZero(a) == a.cls = "fin" /\ a.v = 0
IsFinite(a) == a.cls \in {"fin", "pos"}
IsPositive(a) == a.cls = "pos" \/ a.cls = "inf" \/ (a.cls = "fin" /\ a.v > 0)

\* IEEE-754 multiplication on the classes: 0 * inf = NaN.
FMul(a, b) ==
    IF IsNaN(a) \/ IsNaN(b) THEN NAN
    ELSE IF IsInf(a) \/ IsInf(b)
         THEN IF IsZero(a) \/ IsZero(b) THEN NAN ELSE INF
    ELSE IF a.cls = "fin" /\ b.cls = "fin" THEN Fin(a.v * b.v)
    ELSE IF IsZero(a) \/ IsZero(b) THEN Fin(0)
    ELSE POS

\* IEEE-754 addition on the (non-negative) classes.
FAdd(a, b) ==
    IF IsNaN(a) \/ IsNaN(b) THEN NAN
    ELSE IF IsInf(a) \/ IsInf(b) THEN INF
    ELSE IF a.cls = "fin" /\ b.cls = "fin" THEN Fin(a.v + b.v)
    ELSE POS

\* IEEE-754 division on the (non-negative) classes: x / 0 = inf for x > 0,
\* 0 / 0 = NaN, inf / inf = NaN, x / inf = 0.
FDiv(a, b) ==
    IF IsNaN(a) \/ IsNaN(b) THEN NAN
    ELSE IF IsInf(a) THEN (IF IsInf(b) THEN NAN ELSE INF)
    ELSE IF IsInf(b) THEN Fin(0)
    ELSE IF IsZero(b) THEN (IF IsZero(a) THEN NAN ELSE INF)
    ELSE IF IsZero(a) THEN Fin(0)
    ELSE IF a.cls = "fin" /\ b.cls = "fin" /\ a.v % b.v = 0 THEN Fin(a.v \div b.v)
    ELSE POS

\* (-f + f64::EPSILON).exp(): positive for every finite f, 0 for f = inf.
FExpNeg(f) ==
    IF IsNaN(f) THEN NAN
    ELSE IF IsInf(f) THEN Fin(0)
    ELSE POS

\* ------------------------------------------------------------ Vec helpers
\* The function f itself, tabulated: TLC otherwise re-evaluates the body of
\* [x \in S |-> e] at every application.
Tab(f) == f @@ <<>>
VecLen(v) == Cardinality(DOMAIN v)
VecPush(v, x) == [i \in 0..VecLen(v) |-> IF i < VecLen(v) THEN v[i] ELSE x]

RECURSIVE FSumTo(_, _)
\* f[0] + ... + f[k-1], folded left to right from 0.0.
FSumTo(f, k) == IF k = 0 THEN Fin(0) ELSE FAdd(FSumTo(f, k - 1), f[k - 1])

\* ---------------------------------------------------------------- PMatrix
nrows(p) == VecLen(p)

\* Array2::from_shape_vec((n, n), v): row-major; Err unless len(v) = n*n,
\* and from_vector unwraps it.
from_vector_ok(v, n) == Len(v) = n * n
from_vector(v, n) == [i \in 0..(n - 1) |-> [j \in 0..(n - 1) |-> v[i * n + j + 1]]]

\* &self.p * &v.insert_axis(Axis(0)): v broadcast along the rows, so that
\* column j is multiplied by v[j].
diag_mul_rows(p, v) ==
    Tab([i \in DOMAIN p |-> Tab([j \in DOMAIN p[i] |-> FMul(p[i][j], v[i])])])
diag_mul(p, v) ==
    Tab([i \in DOMAIN p |-> Tab([j \in DOMAIN p[i] |-> FMul(p[i][j], v[j])])])

\* p.dot(&c): the row sums weighted by c.
Dot(p, c) ==
    Tab([i \in DOMAIN p |->
            FSumTo(Tab([j \in DOMAIN p |-> FMul(p[i][j], c[j])]), nrows(p))])
\* p.t().dot(&r): the column sums weighted by r.
DotT(p, r) ==
    Tab([j \in DOMAIN p |->
            FSumTo(Tab([i \in DOMAIN p |-> FMul(p[i][j], r[i])]), nrows(p))])

RECURSIVE RescaleLoop(_, _)
\* r and c after `iters` passes of rescale's loop, from r = c = ones:
\* r <- 1 / (p c), then c <- 1 / (p^T r).
RescaleLoop(p, iters) ==
    IF iters = 0
    THEN [r |-> Tab([i \in DOMAIN p |-> Fin(1)]), c |-> Tab([i \in DOMAIN p |-> Fin(1)])]
    ELSE LET before == RescaleLoop(p, iters - 1)
             row_sums == Dot(p, before.c)
             r2 == Tab([i \in DOMAIN p |-> FDiv(Fin(1), row_sums[i])])
             col_sums == DotT(p, r2)
             c2 == Tab([j \in DOMAIN p |-> FDiv(Fin(1), col_sums[j])])
         IN [r |-> r2, c |-> c2]

\* PMatrix::rescale: always returns a matrix (Self), whatever the sums were.
rescale(p, iters) ==
    LET rc == RescaleLoop(p, iters)
    IN Tab([i \in DOMAIN p |-> Tab([j \in DOMAIN p |->
            FMul(FMul(p[i][j], rc.r[i]), rc.c[j])])])

\* PMatrix::rescale_from_frequencies.
rescale_from_frequencies(p, frequencies) ==
    LET updated_freqs == Tab([i \in DOMAIN frequencies |-> FExpNeg(frequencies[i])])
        sum == FSumTo(updated_freqs, VecLen(updated_freqs))
        weights == Tab([i \in DOMAIN frequencies |-> FDiv(updated_freqs[i], sum)])
    IN rescale(diag_mul(p, weights), RescaleIters)

\* WeightedIndex::new(row) is Err, and sample's unwrap panics, when a weight
\* is NaN or negative or when the weights sum to zero; a total of +infinity
\* is refused by the uniform range the index draws from.
sample_ok(p, i) ==
    /\ \A j \in DOMAIN p[i] : IsFinite(p[i][j])
    /\ \E j \in DOMAIN p[i] : IsPositive(p[i][j])

\* The sites a draw from row i can return: those of positive weight.
Support(p, i) == {j \in DOMAIN p[i] : IsPositive(p[i][j])}

RECURSIVE NthOf(_, _)
\* The k-th smallest (k from 0) element of a non-empty set of numbers.
NthOf(S, k) ==
    LET lo == CHOOSE x \in S : \A y \in S : x <= y
    IN IF k = 0 THEN lo ELSE NthOf(S \ {lo}, k - 1)

\* PMatrix::sample: the generator's output u picks, by cumulative weight, one
\* site of positive weight; the weights' magnitudes are not tracked, so the
\* positive weights share the generator's range equally.
sample(p, i, u) == NthOf(Support(p, i), u % Cardinality(Support(p, i)))

\* --------------------------------------------------------- Node, Phylogeny
\* Option<usize>: None is the empty set, Some(x) the singleton.
None == {}
Some(x) == {x}

\* Node::root
NodeRoot(data, label) ==
    [data |-> data, label |-> label, parent |-> None, children |-> <<>>]

\* Phylogeny::new
PhylogenyNew(root, root_length) ==
    [nodes |-> [i \in {0} |-> root], root_length |-> root_length, root |-> 0]

\* The node add_child pushes before it touches the parent.
PushedNode(t, parent, data, label) ==
    VecPush(t.nodes,
            [data |-> data, label |-> label, parent |-> Some(parent),
             children |-> <<>>])

\* self.nodes[parent] after the push: in bounds iff parent <= id.  Out of
\* bounds the index panics and add_child does not return.
add_child_returns(t, parent) == parent <= VecLen(t.nodes)

\* The parent's children list after add_child's push onto it.
PushChild(children, id, dist) == Append(children, <<id, dist>>)

\* Phylogeny::add_child, when it returns: the arena after the call.  The
\* returned id is VecLen(t.nodes) of the arena before the call.
add_child(t, parent, data, label, dist) ==
    LET id == VecLen(t.nodes)
        pushed == PushedNode(t, parent, data, label)
    IN [t EXCEPT !.nodes =
            [pushed EXCEPT ![parent].children = PushChild(@, id, dist)]]

\* Phylogeny::add_child, when the parent index panics: the node was pushed,
\* no children list was touched.
add_child_panicked(t, parent, data, label) ==
    [t EXCEPT !.nodes = PushedNode(t, parent, data, label)]

RECURSIVE LeavesFrom(_, _)
LeavesFrom(t, i) ==
    IF i >= VecLen(t.nodes) THEN <<>>
    ELSE (IF t.nodes[i].children = <<>> THEN <<i>> ELSE <<>>) \o LeavesFrom(t, i + 1)

\* Phylogeny::leaves: the indices of the nodes with no children, in arena order.
leaves_of(t) == LeavesFrom(t, 0)

RECURSIVE EdgesFrom(_, _)
EdgesFrom(t, i) ==
    IF i >= VecLen(t.nodes) THEN <<>>
    ELSE [c \in 1..Len(t.nodes[i].children) |->
              <<i, t.nodes[i].children[c][1], t.nodes[i].children[c][2]>>]
         \o EdgesFrom(t, i + 1)

\* Phylogeny::edges: (parent, child, length), nodes in arena order, children
\* in list order.
edges_after_root(t) == EdgesFrom(t, 1)
edges(t) == EdgesFrom(t, 0)

\* ------------------------------------------------------------------ state
VARIABLES
    tree,               \* the Phylogeny: [nodes, root_length, root]
    pc,                 \* where the modelled program is
    g, n, m_prob, seed, \* yule_migrations' parameters (lambda > 0 is assumed)
    rng,                \* the StdRng's state
    migration_matrix,   \* the n x n tally
    pmatrix,            \* the PMatrix
    idx,                \* the next payload
    leaves,             \* the driver's live leaves: <<index, label>>
    frequencies,        \* the occupancy shares
    new_counts,         \* this generation's per-site counts
    new_leaves,         \* this generation's children
    gen,                \* generations completed
    li,                 \* position in `leaves` of the leaf being split (from 1)
    k,                  \* children the leaf being split has so far
    draws,              \* log of the generator's outputs, in the order drawn
    run, first,         \* which of two runs this is, and the first's result
    flat, arg, out,     \* PMatrix operations: the flat input, argument, result
    tables, graph, save_result  \* main: the table writers', the graph, save_graph_png's result

paramVars == <<g, n, m_prob, seed>>
driverVars == <<rng, migration_matrix, pmatrix, idx, leaves, frequencies,
                new_counts, new_leaves, gen, li, k, draws>>
runVars == <<run, first>>
matrixVars == <<flat, arg, out>>
mainVars == <<tables, graph, save_result>>
vars == <<tree, pc, paramVars, driverVars, runVars, matrixVars, mainVars>>

\* The parts of the state a specification does not use stay at these values.
NoTree == PhylogenyNew(NodeRoot(0, 0), 0)
IdleParams == g = 0 /\ n = 0 /\ m_prob = Fin(0) /\ seed = 0
IdleDriver ==
    /\ rng = 0 /\ migration_matrix = <<>> /\ idx = 0 /\ leaves = <<>>
    /\ frequencies = <<>> /\ new_counts = <<>> /\ new_leaves = <<>>
    /\ gen = 0 /\ li = 0 /\ k = 0 /\ draws = <<>>
IdleRun == run = 1 /\ first = <<>>
IdleMatrix == flat = <<>> /\ arg = <<>> /\ out = <<>>
IdleMain ==
    /\ tables = <<>> /\ graph = {}
    /\ save_result = [env |-> "none", result |-> "none"]

\* ------------------------------------------------- the arena used directly
\* Nodes an arena is grown to.
MaxNodes == 5
\* The (label, branch length) pairs the callers hand to add_child.
Payloads == {<<0, 1>>, <<1, 2>>}

\* Phylogeny::new(Node::root(0, label), root_length)
InitTree ==
    /\ \E pl \in Payloads : tree = PhylogenyNew(NodeRoot(0, pl[1]), pl[2])
    /\ pc = "ready"
    /\ IdleParams /\ IdleDriver /\ pmatrix = <<>> /\ IdleRun /\ IdleMatrix /\ IdleMain

\* One call tree.add_child(parent, id, label, dist), for any parent index a
\* usize can hold: indices above the pushed node's own all panic alike.
AddChild ==
    /\ pc = "ready"
    /\ VecLen(tree.nodes) < MaxNodes
    /\ \E parent \in 0..(VecLen(tree.nodes) + 1), pl \in Payloads :
          IF add_child_returns(tree, parent)
          THEN /\ tree' = add_child(tree, parent, VecLen(tree.nodes), pl[1], pl[2])
               /\ pc' = pc
          ELSE /\ tree' = add_child_panicked(tree, parent, VecLen(tree.nodes), pl[1])
               /\ pc' = "panicked"
    /\ UNCHANGED <<paramVars, driverVars, runVars, matrixVars, mainVars>>

NextTree == AddChild
SpecTree == InitTree /\ [][NextTree]_vars

\* ------------------------------------------------ PMatrix used directly
Entries == {Fin(e) : e \in 0..MaxEntry}
Weights == {Fin(w) : w \in 0..MaxWeight}
\* Occupancy shares by class: none, a proper share, the whole population.
Shares == {Fin(0), POS, Fin(1)}

InitMatrix ==
    /\ flat \in [1..(TestDim * TestDim) -> Entries]
    /\ pc = "new"
    /\ pmatrix = <<>> /\ arg = <<>> /\ out = <<>>
    /\ tree = NoTree
    /\ IdleParams /\ IdleDriver /\ IdleRun /\ IdleMain

\* PMatrix::from_vector(flat, TestDim)
FromVector ==
    /\ pc = "new"
    /\ IF from_vector_ok(flat, TestDim)
       THEN pmatrix' = from_vector(flat, TestDim) /\ pc' = "ready"
       ELSE pmatrix' = pmatrix /\ pc' = "panicked"
    /\ UNCHANGED <<tree, paramVars, rng, migration_matrix, idx, leaves,
                   frequencies, new_counts, new_leaves, gen, li, k, draws,
                   runVars, matrixVars, mainVars>>

MatrixFrame ==
    UNCHANGED <<tree, paramVars, driverVars, runVars, flat, mainVars>>

\* pmatrix.diag_mul(v)
DiagMul ==
    /\ pc = "ready"
    /\ \E v \in [0..(TestDim - 1) -> Weights] :
          arg' = v /\ out' = diag_mul(pmatrix, v)
    /\ pc' = "diag_mul"
    /\ MatrixFrame

\* pmatrix.rescale(iters)
Rescale ==
    /\ pc = "ready"
    /\ \E iters \in 0..MaxIters :
          arg' = iters /\ out' = rescale(pmatrix, iters)
    /\ pc' = "rescale"
    /\ MatrixFrame

\* pmatrix.rescale_from_frequencies(f)
RescaleFromFrequencies ==
    /\ pc = "ready"
    /\ \E f \in [0..(TestDim - 1) -> Shares] :
          arg' = f /\ out' = rescale_from_frequencies(pmatrix, f)
    /\ pc' = "rescale_from_frequencies"
    /\ MatrixFrame

NextMatrix == FromVector \/ DiagMul \/ Rescale \/ RescaleFromFrequencies
SpecMatrix == InitMatrix /\ [][NextMatrix]_vars

\* ------------------------------------------------------ the random source
\* The range of the generator's outputs.
RngModulus == 64

\* StdRng::seed_from_u64(seed): the state is a function of the seed alone.
seed_from_ambient(s) == (s + run) % RngModulus
seed_from_u64(s) == s % RngModulus

\* One output of the generator, which is also its next state: a full-period
\* congruential step stands for the generator's deterministic stream.
RngNext(s) == (13 * s + 7) % RngModulus

\* exp_dist.sample(&mut rng): a positive length, a function of one output.
exp_sample(u) == 1 + (u % 4)

\* --------------------------------------------------------- yule_migrations
BRANCHING == 2
\* Largest generation count, site count and seed of a run.
MaxG == 3
MaxN == 3
MaxSeed == 7

\* A migration probability by class: 0, strictly between 0 and 1, or 1.
MProbs == {Fin(0), POS, Fin(1)}

\* 1.0 - migration_probability, for a probability in [0, 1].
no_mig_of(m) == IF m.cls = "fin" THEN Fin(1 - m.v) ELSE POS

\* PMatrix::new_with_initial_conditions
new_with_initial_conditions(nn, m) ==
    [i \in 0..(nn - 1) |-> [j \in 0..(nn - 1) |->
        IF i = j THEN no_mig_of(m) ELSE FDiv(m, Fin(nn - 1))]]

\* Array2::zeros((n, n)) and vec![0; n]
ZeroMatrix(nn) == [i \in 0..(nn - 1) |-> [j \in 0..(nn - 1) |-> 0]]
ZeroCounts(nn) == [i \in 0..(nn - 1) |-> 0]

\* The two draws of one child, in the order the loop body makes them: the
\* site (pmatrix.sample) and then the branch length (exp_dist.sample).
ChildDrawsLengthFirst(s) ==
    LET u1 == RngNext(s)
        u2 == RngNext(u1)
    IN [site_u |-> u2, len_u |-> u1, rng |-> u2,
        log |-> << [kind |-> "length", u |-> u1], [kind |-> "site", u |-> u2] >>]
ChildDraws(s) ==
    LET u1 == RngNext(s)
        u2 == RngNext(u1)
    IN [site_u |-> u1, len_u |-> u2, rng |-> u2,
        log |-> << [kind |-> "site", u |-> u1], [kind |-> "length", u |-> u2] >>]

\* `for _ in 0..g`: whether another generation runs.
LoopContinuesInclusive == gen <= g
LoopContinues == gen < g

\* migration_matrix[[label, next_label]] += 1
TallyTransposed(m, label, next_label) == [m EXCEPT ![next_label][label] = @ + 1]
Tally(m, label, next_label) == [m EXCEPT ![label][next_label] = @ + 1]

\* new_leaves.push((idx, next_label))
NewLeafOfParent(leaf, id, next_label) == <<leaf, next_label>>
NewLeaf(leaf, id, next_label) == <<id, next_label>>

\* The list the inner loops walk: the snapshot `leaves` taken when the
\* generation began.
SplitList == leaves

InitParams ==
    /\ g \in 0..MaxG
    /\ n \in 2..MaxN
    /\ m_prob \in MProbs
    /\ seed \in 0..MaxSeed

InitYule ==
    /\ InitParams
    /\ pc = "call"
    /\ tree = NoTree /\ pmatrix = <<>>
    /\ IdleDriver /\ IdleRun /\ IdleMatrix /\ IdleMain

\* Lines 34-47: the set-up before the generation loop.  The root's length
\* is the first output drawn from the generator.
YuleStart ==
    /\ pc = "call"
    /\ LET u == RngNext(seed_from_u64(seed))
       IN /\ rng' = u
          /\ draws' = << [kind |-> "length", u |-> u] >>
          /\ tree' = PhylogenyNew(NodeRoot(0, 0), exp_sample(u))
    /\ migration_matrix' = ZeroMatrix(n)
    /\ pmatrix' = new_with_initial_conditions(n, m_prob)
    /\ idx' = 1
    /\ leaves' = << <<0, 0>> >>
    /\ frequencies' = [i \in 0..(n - 1) |-> IF i = 0 THEN Fin(1) ELSE Fin(0)]
    /\ new_counts' = <<>> /\ new_leaves' = <<>>
    /\ gen' = 0 /\ li' = 0 /\ k' = 0
    /\ pc' = "loop"
    /\ UNCHANGED <<paramVars, runVars, matrixVars, mainVars>>

\* Lines 50-53: a generation begins.
GenBegin ==
    /\ pc = "loop" /\ LoopContinues
    /\ pmatrix' = rescale_from_frequencies(pmatrix, frequencies)
    /\ new_counts' = ZeroCounts(n)
    /\ new_leaves' = <<>>
    /\ li' = 1 /\ k' = 0
    /\ pc' = "split"
    /\ UNCHANGED <<tree, paramVars, rng, migration_matrix, idx, leaves,
                   frequencies, gen, draws, runVars, matrixVars, mainVars>>

\* Lines 55-64: one pass of the inner loop body, one child of the leaf at li.
Split ==
    /\ pc = "split" /\ li <= Len(SplitList)
    /\ LET leaf == SplitList[li][1]
           label == SplitList[li][2]
           d == ChildDraws(rng)
       IN IF sample_ok(pmatrix, label) /\ add_child_returns(tree, leaf)
          THEN LET next_label == sample(pmatrix, label, d.site_u)
               IN /\ new_counts' = [new_counts EXCEPT ![next_label] = @ + 1]
                  /\ tree' = add_child(tree, leaf, idx, next_label, exp_sample(d.len_u))
                  /\ new_leaves' = Append(new_leaves, NewLeaf(leaf, idx, next_label))
                  /\ migration_matrix' = Tally(migration_matrix, label, next_label)
                  /\ idx' = idx + 1
                  /\ rng' = d.rng
                  /\ draws' = draws \o d.log
                  /\ IF k + 1 = BRANCHING
                     THEN li' = li + 1 /\ k' = 0
                     ELSE li' = li /\ k' = k + 1
                  /\ pc' = pc
          ELSE /\ pc' = "panicked"
               /\ UNCHANGED <<tree, rng, migration_matrix, idx, new_counts,
                              new_leaves, li, k, draws>>
    /\ UNCHANGED <<paramVars, pmatrix, leaves, frequencies, gen, runVars,
                   matrixVars, mainVars>>

\* Lines 66-70: the generation ends.
GenEnd ==
    /\ pc = "split" /\ li > Len(SplitList)
    /\ frequencies' = [i \in 0..(n - 1) |->
                          FDiv(Fin(new_counts[i]), Fin(Len(new_leaves)))]
    /\ leaves' = new_leaves
    /\ gen' = gen + 1
    /\ pc' = "loop"
    /\ UNCHANGED <<tree, paramVars, rng, migration_matrix, pmatrix, idx,
                   new_counts, new_leaves, li, k, draws, runVars, matrixVars,
                   mainVars>>

\* Line 73: yule_migrations returns (tree, migration_matrix).
Return ==
    /\ pc = "loop" /\ ~LoopContinues
    /\ pc' = "done"
    /\ UNCHANGED <<tree, paramVars, driverVars, runVars, matrixVars, mainVars>>

NextYule == YuleStart \/ GenBegin \/ Split \/ GenEnd \/ Return

\* ------------------------------------------------------------------- main
\* graph_from_edge_matrix: one node per site, one edge <<i, j, count>> per
\* off-diagonal cell with a positive count.
graph_from_edge_matrix(m) ==
    [nodes |-> DOMAIN m,
     edges |-> {<<i, j, m[i][j]>> : i \in DOMAIN m, j \in DOMAIN m} \cap
               {e \in (DOMAIN m) \X (DOMAIN m) \X Int : e[1] /= e[2] /\ e[3] > 0}]

\* What the file system and the `dot` process can do to save_graph_png.
ToolOutcomes == {"create_failed", "write_failed", "dot_missing", "dot_nonzero", "dot_ok"}

\* save_graph_png: `?` turns the file errors and a failed spawn into Err; a
\* non-zero exit status reaches panic!("Graphviz failed").
save_graph_png(env) ==
    IF env \in {"create_failed", "write_failed", "dot_missing"} THEN "Err"
    ELSE IF env = "dot_nonzero" THEN "panic"
    ELSE "Ok"

\* What the file system can do to one table writer of main.
TableOutcomes == {"create_failed", "write_error", "wrote"}
\* The tables main writes: edge list, vertex labelling, leaf labelling.
TableNames == <<"edgelist", "vertex_labeling", "leaf_labeling">>

\* Lines 53-68: one table.  File::create(..).unwrap() panics; a write error
\* is printed and main goes on.
WriteTable ==
    /\ pc = "done" /\ Len(tables) < Len(TableNames)
    /\ \E o \in TableOutcomes :
          IF o = "create_failed"
          THEN pc' = "crashed" /\ tables' = tables
          ELSE pc' = pc /\ tables' = Append(tables, o)
    /\ UNCHANGED <<tree, paramVars, driverVars, runVars, matrixVars, graph,
                   save_result>>

\* Lines 70-74: the graph is built and rendered; main prints Ok or the Err.
SaveGraph ==
    /\ pc = "done" /\ Len(tables) = Len(TableNames)
    /\ graph' = graph_from_edge_matrix(migration_matrix)
    /\ \E env \in ToolOutcomes :
          /\ save_result' = [env |-> env, result |-> save_graph_png(env)]
          /\ pc' = IF save_graph_png(env) = "panic" THEN "crashed" ELSE "exit"
    /\ UNCHANGED <<tree, paramVars, driverVars, runVars, matrixVars, tables>>

Init == InitYule
Next == NextYule \/ WriteTable \/ SaveGraph
Spec == Init /\ [][Next]_vars

\* ------------------------------------------------- two runs, one after the other
\* The first run has returned: its result is kept and yule_migrations is
\* called again with the same arguments.  Nothing of the first call's state
\* outlives it.
SecondRun ==
    /\ pc = "done" /\ run = 1
    /\ first' = [tree |-> tree, migration_matrix |-> migration_matrix]
    /\ run' = 2
    /\ pc' = "call"
    /\ tree' = NoTree /\ pmatrix' = <<>>
    /\ rng' = 0 /\ migration_matrix' = <<>> /\ idx' = 0 /\ leaves' = <<>>
    /\ frequencies' = <<>> /\ new_counts' = <<>> /\ new_leaves' = <<>>
    /\ gen' = 0 /\ li' = 0 /\ k' = 0 /\ draws' = <<>>
    /\ UNCHANGED <<paramVars, matrixVars, mainVars>>

NextTwoRuns == NextYule \/ SecondRun
SpecTwoRuns == InitYule /\ [][NextTwoRuns]_vars

\* ================================================================= claims
ParentOf(t, i) == t.nodes[i].parent
\* How many entries of a children list name node i.
Occurrences(children, i) ==
    Cardinality({c \in 1..Len(children) : children[c][1] = i})

RECURSIVE ReachesRoot(_, _, _)
\* Following parent links from i reaches the root within `fuel` steps, which
\* with fuel = the node count means without repeating a node.
ReachesRoot(t, i, fuel) ==
    \/ i = t.root
    \/ /\ fuel > 0
       /\ \E q \in ParentOf(t, i) :
             q \in DOMAIN t.nodes /\ ReachesRoot(t, q, fuel - 1)

IsTree(t) ==
    /\ ParentOf(t, t.root) = None
    /\ \A i \in DOMAIN t.nodes \ {t.root} :
          /\ Cardinality(ParentOf(t, i)) = 1
          /\ \A q \in DOMAIN t.nodes :
                Occurrences(t.nodes[q].children, i) =
                    (IF q \in ParentOf(t, i) THEN 1 ELSE 0)
          /\ ReachesRoot(t, i, VecLen(t.nodes))

\* C1: after Phylogeny::new and any add_child calls that returned, whatever
\* parent index each was given, the arena is a tree: every non-root node has
\* exactly one parent, is exactly once in that parent's children list and in
\* no other, and its parent links lead to the root without a repeat.
C1_ArenaIsTree == pc = "ready" => IsTree(tree)

\* C5: for an arena reached by add_child calls that returned, edges() has
\* nodeCount - 1 triples (parent, child, length); every non-root index is the
\* child of exactly one triple, which carries that child's parent and the
\* length it was inserted with; the triples come in arena order of the
\* parent and, under one parent, in insertion (child index) order.
C5_Edges ==
    pc = "ready" =>
        LET es == edges(tree)
        IN /\ Len(es) = VecLen(tree.nodes) - 1
           /\ \A i \in DOMAIN tree.nodes \ {tree.root} :
                 Cardinality({e \in 1..Len(es) : es[e][2] = i}) = 1
           /\ \A e \in 1..Len(es) :
                 /\ es[e][2] \in DOMAIN tree.nodes
                 /\ ParentOf(tree, es[e][2]) = Some(es[e][1])
                 /\ <<tree.nodes[es[e][2]].label, es[e][3]>> \in Payloads
           /\ \A e \in 1..(Len(es) - 1) :
                 \/ es[e][1] < es[e + 1][1]
                 \/ es[e][1] = es[e + 1][1] /\ es[e][2] < es[e + 1][2]

\* C5's case: an arena of four or more nodes in which some node has two
\* children and some non-root node has a child.
C5_Witness ==
    /\ pc = "ready"
    /\ VecLen(tree.nodes) >= 4
    /\ \E i \in DOMAIN tree.nodes : Len(tree.nodes[i].children) >= 2
    /\ \E i \in DOMAIN tree.nodes \ {tree.root} : Len(tree.nodes[i].children) >= 1
    /\ Len(edges(tree)) = VecLen(tree.nodes) - 1

AllFinite(m) == \A i \in DOMAIN m : \A j \in DOMAIN m[i] : IsFinite(m[i][j])

\* C7: when an iteration of rescale divides by a zero row or column sum,
\* rescale fails explicitly; it never returns a matrix built from the
\* inf/NaN scale factors.  A call that returned therefore returned finite
\* entries only.
C7_RescaleNeverReturnsNaN ==
    pc \in {"rescale", "rescale_from_frequencies"} => AllFinite(out)

\* C8: diag_mul returns Q with Q[i][j] = P[i][j] * w[j] and leaves P as it
\* was built; [[2,3],[4,5]] with weights [2,1] gives [[4,3],[8,5]].
C8_DiagMul ==
    pc = "diag_mul" =>
        /\ \A i \in 0..(TestDim - 1) : \A j \in 0..(TestDim - 1) :
              out[i][j] = Fin(pmatrix[i][j].v * arg[j].v)
        /\ \A i \in 0..(TestDim - 1) : \A j \in 0..(TestDim - 1) :
              pmatrix[i][j] = flat[i * TestDim + j + 1]
        /\ (flat = <<Fin(2), Fin(3), Fin(4), Fin(5)>> /\ arg[0] = Fin(2) /\ arg[1] = Fin(1))
              => /\ out[0][0] = Fin(4) /\ out[0][1] = Fin(3)
                 /\ out[1][0] = Fin(8) /\ out[1][1] = Fin(5)

\* C8's case: the worked example has been computed.
C8_Witness ==
    /\ pc = "diag_mul"
    /\ flat = <<Fin(2), Fin(3), Fin(4), Fin(5)>>
    /\ arg[0] = Fin(2) /\ arg[1] = Fin(1)
    /\ out[1][0] = Fin(8)

\* yule_migrations has returned (main may have gone on, or crashed, since).
Returned == pc \in {"done", "exit", "crashed"}
\* The generation loop is between two generations, or over.
BetweenGenerations == pc = "loop" \/ Returned

RECURSIVE Pow2(_)
Pow2(e) == IF e = 0 THEN 1 ELSE 2 * Pow2(e - 1)

\* C2: when yule_migrations returns, the arena has 2^g leaves and
\* 2^(g+1) - 1 nodes; for g = 0 the root alone.
C2_LeafAndNodeCount ==
    Returned =>
        /\ Len(leaves_of(tree)) = Pow2(g)
        /\ VecLen(tree.nodes) = Pow2(g + 1) - 1

\* C2's case: a run of two or more generations has returned.
C2_Witness ==
    /\ pc = "done" /\ g >= 2
    /\ Len(leaves_of(tree)) = Pow2(g) /\ VecLen(tree.nodes) >= 7

\* The arena edges from a node labelled i to a node labelled j.
EdgesByLabel(t, es, i, j) ==
    {e \in 1..Len(es) :
        /\ t.nodes[es[e][1]].label = i
        /\ t.nodes[es[e][2]].label = j}

RECURSIVE SumCounts(_, _)
\* c[0] + ... + c[m-1]
SumCounts(c, m) == IF m = 0 THEN 0 ELSE SumCounts(c, m - 1) + c[m - 1]
TallyTotal(m) ==
    SumCounts([i \in DOMAIN m |-> SumCounts(m[i], VecLen(m[i]))], VecLen(m))

\* C3: at the end of every generation and at return, migration_matrix[i][j]
\* is the number of arena edges from a node labelled i to a node labelled j,
\* the diagonal included; the entries sum to the number of edges,
\* 2^(gen+1) - 2 after gen generations.
C3_TallyCountsEdges ==
    BetweenGenerations =>
        LET es == edges(tree)
        IN /\ \A i \in 0..(n - 1) : \A j \in 0..(n - 1) :
                 migration_matrix[i][j] = Cardinality(EdgesByLabel(tree, es, i, j))
           /\ TallyTotal(migration_matrix) = Len(es)
           /\ TallyTotal(migration_matrix) = Pow2(gen + 1) - 2
           /\ Returned => gen = g

\* C3's case: a run of two or more generations has returned with a
\* migration (an off-diagonal count) in one direction only.
C3_Witness ==
    /\ pc = "done" /\ g >= 2
    /\ \E i \in 0..(n - 1), j \in 0..(n - 1) :
          i /= j /\ migration_matrix[i][j] > 0 /\ migration_matrix[j][i] = 0

C6_ToolFailureIsReported ==
    save_result.env \in {"dot_missing", "dot_nonzero"} =>
        save_result.result = "Err" /\ pc = "exit"

\* The snapshot entry at position j has exactly c children in the arena.
HasChildren(j, c) == Len(tree.nodes[leaves[j][1]].children) = c

\* C9: in every generation the leaves snapshotted at its start are split in
\* increasing index order, each getting its 2 children before the next leaf
\* is touched (so node c hangs under node (c-1) div 2); for each child the
\* site is drawn first and the branch length second; the root's length is
\* the first draw of the run; no child made in a generation is split in it.
C9_ProcessingAndDrawOrder ==
    pc \in {"loop", "split", "done", "exit", "crashed"} =>
        /\ Len(draws) = 2 * VecLen(tree.nodes) - 1
        /\ draws[1] = [kind |-> "length", u |-> RngNext(seed_from_u64(seed))]
        /\ tree.root_length = exp_sample(draws[1].u)
        /\ \A d \in 2..Len(draws) : draws[d].u = RngNext(draws[d - 1].u)
        /\ \A c \in DOMAIN tree.nodes \ {0} :
              /\ draws[2 * c].kind = "site"
              /\ draws[2 * c + 1].kind = "length"
              /\ ParentOf(tree, c) = Some((c - 1) \div 2)
              /\ \E pos \in 1..Len(tree.nodes[(c - 1) \div 2].children) :
                    tree.nodes[(c - 1) \div 2].children[pos] =
                        <<c, exp_sample(draws[2 * c + 1].u)>>
        /\ pc = "split" =>
              /\ \A e \in 1..Len(new_leaves) :
                    LET c == new_leaves[e][1]
                    IN /\ tree.nodes[c].children = <<>>
                       /\ tree.nodes[c].label =
                             sample(pmatrix, tree.nodes[(c - 1) \div 2].label,
                                    draws[2 * c].u)
              /\ \A j \in 1..Len(leaves) :
                    /\ j < li => HasChildren(j, BRANCHING)
                    /\ j = li => HasChildren(j, k)
                    /\ j > li => HasChildren(j, 0)
                    /\ j > 1 => leaves[j - 1][1] < leaves[j][1]

\* C9's case: in a later generation, the second leaf of the snapshot has its
\* first child and not yet its second.
C9_Witness ==
    /\ pc = "split" /\ gen >= 1 /\ li = 2 /\ k = 1
    /\ HasChildren(1, BRANCHING) /\ HasChildren(2, 1)
    /\ draws[Len(draws)].kind = "length"

RECURSIVE LeafPairs(_, _)
\* The arena's leaves() in order, each with the label its node stores.
LeafPairs(t, ls) ==
    IF ls = <<>> THEN <<>>
    ELSE << <<Head(ls), t.nodes[Head(ls)].label>> >> \o LeafPairs(t, Tail(ls))

\* C10: at the start of every generation and at return, the driver's list of
\* live leaves is the arena's leaves() sequence, in the same order, each
\* paired with the label its node stores; every payload is its arena index.
C10_LeafListMatchesArena ==
    BetweenGenerations =>
        /\ leaves = LeafPairs(tree, leaves_of(tree))
        /\ \A i \in DOMAIN tree.nodes : tree.nodes[i].data = i

\* C10's case: a run of two or more generations has returned with leaves
\* at more than one site.
C10_Witness ==
    /\ pc = "done" /\ g >= 2 /\ Len(leaves) = Pow2(g)
    /\ \E a \in 1..Len(leaves), b \in 1..Len(leaves) : leaves[a][2] /= leaves[b][2]

====
